---- MODULE Spec2Model ----
(***************************************************************************)
(* A model of energy_toolkit.py: ProductionDataProcessor, LogFileAnalyzer  *)
(* and TimeSeriesAnalyzer.  Each class is an object holding one list; its  *)
(* methods are pure computations over that list that hand a result back to *)
(* the caller.                                                             *)
(*                                                                         *)
(* Numbers.  Inputs are integers.  A quotient the code computes in floating*)
(* point is kept as an exact fraction <<num, den>> with den > 0, so the    *)
(* model is the code over the reals: IEEE rounding, NaN and infinities are *)
(* outside it.                                                             *)
(*                                                                         *)
(* Text.  A string is a sequence of one-character strings, so that parsing,*)
(* upper-casing, stripping and substring search are computed character by  *)
(* character.                                                              *)
(***************************************************************************)
EXTENDS Integers, Sequences, FiniteSets

VARIABLES
    proc_data,  \* ProductionDataProcessor.data : list of rows (dicts)
    logs,       \* LogFileAnalyzer.logs         : list of lines
    ts_data,    \* TimeSeriesAnalyzer.data      : list of numbers
    op,         \* the last operation performed
    arg,        \* its argument (0 when it has none)
    ret         \* what it handed back: [kind, val]

vars == <<proc_data, logs, ts_data, op, arg, ret>>

\* Bounds of the model.
MaxLen == 3
MaxRecords == 3
MaxLogs == 3

----------------------------------------------------------------------------
\* Generic helpers

RECURSIVE SumSeq(_)
\* Python sum(): the sum of a list of integers.
SumSeq(s) == IF s = <<>> THEN 0 ELSE s[1] + SumSeq(Tail(s))

Min(a, b) == IF a < b THEN a ELSE b
Max(a, b) == IF a > b THEN a ELSE b

\* Python s[start:stop] (0-based, stop exclusive): a negative index counts
\* from the end, and both ends are clamped to 0..len(s).
PySliceIndex(i, n) == IF i < 0 THEN Max(i + n, 0) ELSE Min(i, n)
PySlice(s, start, stop) ==
    SubSeq(s, PySliceIndex(start, Len(s)) + 1, PySliceIndex(stop, Len(s)))

\* Sequences over S of length at most n.
SeqUpTo(S, n) == UNION {[1..k -> S] : k \in 0..n}

\* Exact fractions <<num, den>>, den > 0.
Rat(n, d) == IF d < 0 THEN <<-n, -d>> ELSE <<n, d>>
RatSub(a, b) == <<a[1] * b[2] - b[1] * a[2], a[2] * b[2]>>
RatMul(a, b) == <<a[1] * b[1], a[2] * b[2]>>
RatDiv(a, b) == Rat(a[1] * b[2], a[2] * b[1])
RatGT(a, b) == a[1] * b[2] > b[1] * a[2]
RatLT(a, b) == a[1] * b[2] < b[1] * a[2]

\* What a call hands back.
Fresh(v) == [kind |-> "list", val |-> v]      \* a newly built list
SelfData(v) == [kind |-> "self.data", val |-> v]  \* the object's own list
Value(v) == [kind |-> "value", val |-> v]     \* an immutable value
Raise(e) == [kind |-> "raise", val |-> e]     \* an exception reaches the caller
NoResult == [kind |-> "none", val |-> 0]

\* statistics.mean of a non-empty list.
mean(s) == <<SumSeq(s), Len(s)>>

----------------------------------------------------------------------------
\* TimeSeriesAnalyzer

\* The series the analyzer is constructed with.
TsValues == {-10, 0, 20, 21, 40}
Windows == -2..(MaxLen + 1)
Thresholds == {-1, 0, 1, 2}
\* what the caller appends to a list it was handed
AppendValues == {0, 40}

\* A variant that builds one window too few (range(len(data) - window)).
moving_average_short(data, window) ==
    IF Len(data) < window THEN SelfData(data)
    ELSE LET count == Max(Len(data) - window, 0) IN
         IF count > 0 /\ window = 0 THEN Raise("ZeroDivisionError")
         ELSE Fresh([k \in 1..count |->
                       Rat(SumSeq(PySlice(data, k - 1, k - 1 + window)), window)])

\* moving_average(window): the list itself when it is shorter than the
\* window; otherwise sum(data[i:i+window]) / window for i in
\* range(len(data) - window + 1).  The division raises for window = 0 on the
\* first element of the range.
moving_average(data, window) ==
    IF Len(data) < window THEN SelfData(data)
    ELSE LET count == Max(Len(data) - window + 1, 0) IN
         IF count > 0 /\ window = 0 THEN Raise("ZeroDivisionError")
         ELSE Fresh([k \in 1..count |->
                       Rat(SumSeq(PySlice(data, k - 1, k - 1 + window)), window)])

\* n * sum((x - mean)^2) = n * sum(x^2) - (sum x)^2; statistics.stdev is the
\* square root of this over n * (n - 1).
SumSqDev(data) ==
    Len(data) * SumSeq([k \in 1..Len(data) |-> data[k] * data[k]])
        - SumSeq(data) * SumSeq(data)

\* stdev > 0
stdev_positive(data) == SumSqDev(data) > 0

\* z_score > threshold, where z_score = abs((val - mean) / stdev) if
\* stdev > 0 else 0.  With n = len(data), dev = n * (val - mean) and
\* V = SumSqDev, z_score^2 = dev^2 * (n - 1) / (n * V); a non-negative
\* z_score exceeds a negative threshold, and exceeds a non-negative one
\* exactly when its square exceeds the threshold's.
z_score_exceeds(data, val, threshold) ==
    IF stdev_positive(data)
    THEN LET n == Len(data)
             dev == n * val - SumSeq(data)
         IN  IF threshold < 0 THEN TRUE
             ELSE dev * dev * (n - 1) > threshold * threshold * n * SumSqDev(data)
    ELSE 0 > threshold

RECURSIVE anomalies_from(_, _, _)
\* the loop of detect_anomalies from 0-based index i on
anomalies_from(data, threshold, i) ==
    IF i >= Len(data) THEN <<>>
    ELSE (IF z_score_exceeds(data, data[i + 1], threshold) THEN <<i>> ELSE <<>>)
            \o anomalies_from(data, threshold, i + 1)

detect_anomalies(data, threshold) ==
    IF Len(data) < 2 THEN Fresh(<<>>)
    ELSE Fresh(anomalies_from(data, threshold, 0))

\* A variant that guards the division with avg_first != 0.
calculate_trend_nonzero(data) ==
    IF Len(data) < 2 THEN Value("insufficient_data")
    ELSE LET mid == Len(data) \div 2
             avg_first == mean(PySlice(data, 0, mid))
             avg_second == mean(PySlice(data, mid, Len(data)))
             diff_percent ==
                 IF avg_first[1] # 0
                 THEN RatMul(RatDiv(RatSub(avg_second, avg_first), avg_first),
                             <<100, 1>>)
                 ELSE <<0, 1>>
         IN  IF RatGT(diff_percent, <<5, 1>>) THEN Value("increasing")
             ELSE IF RatLT(diff_percent, <<-5, 1>>) THEN Value("decreasing")
             ELSE Value("stable")

calculate_trend(data) ==
    IF Len(data) < 2 THEN Value("insufficient_data")
    ELSE LET mid == Len(data) \div 2
             avg_first == mean(PySlice(data, 0, mid))
             avg_second == mean(PySlice(data, mid, Len(data)))
             diff_percent ==
                 IF RatGT(avg_first, <<0, 1>>)
                 THEN RatMul(RatDiv(RatSub(avg_second, avg_first), avg_first),
                             <<100, 1>>)
                 ELSE <<0, 1>>
         IN  IF RatGT(diff_percent, <<5, 1>>) THEN Value("increasing")
             ELSE IF RatLT(diff_percent, <<-5, 1>>) THEN Value("decreasing")
             ELSE Value("stable")

\* TimeSeriesAnalyzer(data)
InitTS ==
    /\ ts_data \in SeqUpTo(TsValues, MaxLen)
    /\ proc_data = <<>>
    /\ logs = <<>>
    /\ op = "__init__"
    /\ arg = 0
    /\ ret = NoResult

MovingAverage ==
    \E window \in Windows :
        /\ op' = "moving_average"
        /\ arg' = window
        /\ ret' = moving_average(ts_data, window)
        /\ UNCHANGED <<proc_data, logs, ts_data>>

DetectAnomalies ==
    \E threshold \in Thresholds :
        /\ op' = "detect_anomalies"
        /\ arg' = threshold
        /\ ret' = detect_anomalies(ts_data, threshold)
        /\ UNCHANGED <<proc_data, logs, ts_data>>

CalculateTrend ==
    /\ op' = "calculate_trend"
    /\ arg' = 0
    /\ ret' = calculate_trend(ts_data)
    /\ UNCHANGED <<proc_data, logs, ts_data>>

\* The caller appends to the list a call handed back.  A list the call built
\* is the caller's alone; the list moving_average hands back for a short
\* series is self.data itself, so the append is an append to self.data.
CallerAppends ==
    \E v \in AppendValues :
        /\ ret.kind \in {"list", "self.data"}
        /\ Len(ret.val) < MaxLen
        /\ op' = "caller_append"
        /\ arg' = v
        /\ ret' = [ret EXCEPT !.val = Append(@, v)]
        /\ ts_data' = IF ret.kind = "self.data" THEN Append(ts_data, v) ELSE ts_data
        /\ UNCHANGED <<proc_data, logs>>

NextTS == MovingAverage \/ DetectAnomalies \/ CalculateTrend \/ CallerAppends

SpecTS == InitTS /\ [][NextTS]_vars

----------------------------------------------------------------------------
\* Text

Whitespace == {" ", "\n", "\t"}
DigitChars == <<"0", "1", "2", "3", "4", "5", "6", "7", "8", "9">>
LowerChars == <<"a", "b", "c", "d", "e", "f", "g", "h", "i", "j", "k", "l", "m",
                "n", "o", "p", "q", "r", "s", "t", "u", "v", "w", "x", "y", "z">>
UpperChars == <<"A", "B", "C", "D", "E", "F", "G", "H", "I", "J", "K", "L", "M",
                "N", "O", "P", "Q", "R", "S", "T", "U", "V", "W", "X", "Y", "Z">>

IsDigit(c) == \E k \in 1..Len(DigitChars) : DigitChars[k] = c
DigitValue(c) == (CHOOSE k \in 1..Len(DigitChars) : DigitChars[k] = c) - 1

RECURSIVE DecimalValue(_)
\* the value of a non-empty string of digits
DecimalValue(s) ==
    IF s = <<>> THEN 0
    ELSE 10 * DecimalValue(SubSeq(s, 1, Len(s) - 1)) + DigitValue(s[Len(s)])

RECURSIVE lstrip(_)
lstrip(s) == IF s # <<>> /\ s[1] \in Whitespace THEN lstrip(Tail(s)) ELSE s

RECURSIVE rstrip(_)
rstrip(s) ==
    IF s # <<>> /\ s[Len(s)] \in Whitespace
    THEN rstrip(SubSeq(s, 1, Len(s) - 1))
    ELSE s

\* str.strip()
strip(s) == rstrip(lstrip(s))

\* str.upper(), on ASCII letters
upper_char(c) ==
    IF \E k \in 1..Len(LowerChars) : LowerChars[k] = c
    THEN UpperChars[CHOOSE k \in 1..Len(LowerChars) : LowerChars[k] = c]
    ELSE c
upper(s) == [k \in 1..Len(s) |-> upper_char(s[k])]

\* sub in s
Contains(sub, s) ==
    \E i \in 0..(Len(s) - Len(sub)) : SubSeq(s, i + 1, i + Len(sub)) = sub

\* float(s) for a string s: surrounding whitespace is dropped, then an
\* optional sign and one or more digits give the number; anything else is a
\* ValueError.  (Python also reads fractions, exponents, inf and nan; no
\* string the model draws has them.)
float(s) ==
    LET t == strip(s)
        signed == t # <<>> /\ t[1] \in {"+", "-"}
        digits == IF signed THEN Tail(t) ELSE t
    IN  IF digits # <<>> /\ \A k \in 1..Len(digits) : IsDigit(digits[k])
        THEN [ok |-> TRUE,
              val |-> IF signed /\ t[1] = "-" THEN -DecimalValue(digits)
                      ELSE DecimalValue(digits)]
        ELSE [ok |-> FALSE, val |-> 0]

----------------------------------------------------------------------------
\* ProductionDataProcessor

\* The rows csv.DictReader yields: dicts from column names to strings; a
\* column the file lacks is a key the row lacks.
ProdStrings == {<<"1", "0">>, <<" ", "1", "0">>, <<"-", "5">>, <<"a", "b", "c">>, <<>>}
Dates == {<<"d", "1">>}
EmptyRow == [k \in {} |-> <<>>]
Rows ==
    {[date |-> d, production |-> p] : d \in Dates, p \in ProdStrings}
        \cup {[production |-> p] : p \in ProdStrings}
        \cup {[date |-> d] : d \in Dates}
        \cup {EmptyRow}
NValues == -2..(MaxRecords + 1)

Unknown == <<"U", "n", "k", "n", "o", "w", "n">>

\* float(row.get('production', 0)): float(0) is 0.0
float_production_or_0(row) ==
    IF "production" \in DOMAIN row THEN float(row["production"])
    ELSE [ok |-> TRUE, val |-> 0]

\* row.get('date', 'Unknown')
date_or_unknown(row) == IF "date" \in DOMAIN row THEN row["date"] ELSE Unknown

\* A variant that numbers rows from 0 (row: i).
RECURSIVE validate_loop_from0(_, _)
validate_loop_from0(data, i) ==
    IF i >= Len(data) THEN <<>>
    ELSE LET row == data[i + 1]
             here ==
                 IF "production" \in DOMAIN row
                 THEN LET prod == float(row["production"]) IN
                      IF prod.ok
                      THEN IF prod.val < 0
                           THEN <<[row |-> i,
                                   error |-> "Negative production value",
                                   value |-> prod.val]>>
                           ELSE <<>>
                      ELSE <<[row |-> i,
                              error |-> "Invalid production value",
                              value |-> row["production"]]>>
                 ELSE <<>>
         IN  here \o validate_loop_from0(data, i + 1)

validate_data_from0(data) == Fresh(validate_loop_from0(data, 0))

RECURSIVE validate_loop(_, _)
\* the loop of validate_data from 0-based index i on
validate_loop(data, i) ==
    IF i >= Len(data) THEN <<>>
    ELSE LET row == data[i + 1]
             here ==
                 IF "production" \in DOMAIN row
                 THEN LET prod == float(row["production"]) IN
                      IF prod.ok
                      THEN IF prod.val < 0
                           THEN <<[row |-> i + 1,
                                   error |-> "Negative production value",
                                   value |-> prod.val]>>
                           ELSE <<>>
                      ELSE <<[row |-> i + 1,
                              error |-> "Invalid production value",
                              value |-> row["production"]]>>
                 ELSE <<>>
         IN  here \o validate_loop(data, i + 1)

validate_data(data) == Fresh(validate_loop(data, 0))

RECURSIVE productions(_)
\* the list calculate_daily_average collects
productions(data) ==
    IF data = <<>> THEN <<>>
    ELSE LET prod == float_production_or_0(data[1]) IN
         (IF prod.ok THEN <<prod.val>> ELSE <<>>) \o productions(Tail(data))

\* A variant that skips a row lacking the production field.
RECURSIVE productions_present(_)
productions_present(data) ==
    IF data = <<>> THEN <<>>
    ELSE LET row == data[1] IN
         (IF "production" \in DOMAIN row /\ float(row["production"]).ok
          THEN <<float(row["production"]).val>> ELSE <<>>)
            \o productions_present(Tail(data))

calculate_daily_average_present(data) ==
    IF productions_present(data) # <<>>
    THEN Value(mean(productions_present(data)))
    ELSE Value(<<0, 1>>)

calculate_daily_average(data) ==
    IF productions(data) # <<>> THEN Value(mean(productions(data)))
    ELSE Value(<<0, 1>>)

RECURSIVE valid_data(_)
\* the list get_top_days collects
valid_data(data) ==
    IF data = <<>> THEN <<>>
    ELSE LET prod == float_production_or_0(data[1]) IN
         (IF prod.ok
          THEN <<[date |-> date_or_unknown(data[1]), production |-> prod.val]>>
          ELSE <<>>) \o valid_data(Tail(data))

\* x put into the descending list t after every entry at least as large
InsertDescending(t, x) ==
    LET k == Cardinality({j \in 1..Len(t) : t[j].production >= x.production})
    IN  SubSeq(t, 1, k) \o <<x>> \o SubSeq(t, k + 1, Len(t))

\* x put into the descending list t before every entry no larger
InsertDescendingFirst(t, x) ==
    LET k == Cardinality({j \in 1..Len(t) : t[j].production > x.production})
    IN  SubSeq(t, 1, k) \o <<x>> \o SubSeq(t, k + 1, Len(t))

\* A variant whose sort reverses entries of equal production
\* (sorted(...)[::-1]).
RECURSIVE sorted_reversing_ties(_)
sorted_reversing_ties(s) ==
    IF s = <<>> THEN <<>>
    ELSE InsertDescendingFirst(sorted_reversing_ties(SubSeq(s, 1, Len(s) - 1)),
                               s[Len(s)])

RECURSIVE sorted_by_production_reverse(_)
\* sorted(s, key=lambda x: x['production'], reverse=True): descending, and
\* entries of equal production keep their order (Python's sort is stable,
\* with reverse=True too)
sorted_by_production_reverse(s) ==
    IF s = <<>> THEN <<>>
    ELSE InsertDescending(sorted_by_production_reverse(SubSeq(s, 1, Len(s) - 1)),
                          s[Len(s)])

get_top_days_reversing_ties(data, n) ==
    Fresh(PySlice(sorted_reversing_ties(valid_data(data)), 0, n))

\* sorted_data[:n]
get_top_days(data, n) ==
    Fresh(PySlice(sorted_by_production_reverse(valid_data(data)), 0, n))

\* ProductionDataProcessor(filepath), after load_data
InitProd ==
    /\ proc_data \in SeqUpTo(Rows, MaxRecords)
    /\ logs = <<>>
    /\ ts_data = <<>>
    /\ op = "__init__"
    /\ arg = 0
    /\ ret = NoResult

ValidateData ==
    /\ op' = "validate_data"
    /\ arg' = 0
    /\ ret' = validate_data(proc_data)
    /\ UNCHANGED <<proc_data, logs, ts_data>>

CalculateDailyAverage ==
    /\ op' = "calculate_daily_average"
    /\ arg' = 0
    /\ ret' = calculate_daily_average(proc_data)
    /\ UNCHANGED <<proc_data, logs, ts_data>>

GetTopDays ==
    \E n \in NValues :
        /\ op' = "get_top_days"
        /\ arg' = n
        /\ ret' = get_top_days(proc_data, n)
        /\ UNCHANGED <<proc_data, logs, ts_data>>

NextProd == ValidateData \/ CalculateDailyAverage \/ GetTopDays

SpecProd == InitProd /\ [][NextProd]_vars

----------------------------------------------------------------------------
\* LogFileAnalyzer

ERROR == <<"E", "R", "R", "O", "R">>
WARNING == <<"W", "A", "R", "N", "I", "N", "G">>
INFO == <<"I", "N", "F", "O">>

\* The lines readlines() yields.
LogLines ==
    { <<"E", "R", "R", "O", "R", " ", "a", "\n">>,
      <<"e", "r", "r", "o", "r", "\n">>,
      <<"W", "a", "r", "n", "i", "n", "g", " ", "E", "R", "R", "O", "R", "\n">>,
      <<"W", "A", "R", "N", "I", "N", "G", "\n">>,
      <<"i", "n", "f", "o", " ", "w", "a", "r", "n", "i", "n", "g", "\n">>,
      <<" ", "I", "N", "F", "O", "\n">>,
      <<"o", "k", "\n">> }

\* Patterns handed to find_pattern: two literals and one that does not
\* compile.
Patterns == {<<"e", "r", "r", "o", "r">>, <<"O">>, <<"(">>}
RegexMeta == {".", "^", "$", "*", "+", "?", "{", "}", "[", "]", "\\", "|", "(", ")"}
IsLiteral(pattern) == \A k \in 1..Len(pattern) : pattern[k] \notin RegexMeta
Compiles(pattern) == IsLiteral(pattern)

\* counts[level] += 1 on a defaultdict(int)
Increment(counts, level) ==
    [k \in DOMAIN counts \cup {level} |->
        IF k \in DOMAIN counts
        THEN (IF k = level THEN counts[k] + 1 ELSE counts[k])
        ELSE 1]

EmptyCounts == [k \in {} |-> 0]

\* A variant that tests WARNING before ERROR.
RECURSIVE count_loop_warning_first(_, _)
count_loop_warning_first(lines, counts) ==
    IF lines = <<>> THEN counts
    ELSE LET log_upper == upper(lines[1]) IN
         count_loop_warning_first(Tail(lines),
            IF Contains(WARNING, log_upper) THEN Increment(counts, "WARNING")
            ELSE IF Contains(ERROR, log_upper) THEN Increment(counts, "ERROR")
            ELSE IF Contains(INFO, log_upper) THEN Increment(counts, "INFO")
            ELSE counts)

count_by_level_warning_first(lines) ==
    Value(count_loop_warning_first(lines, EmptyCounts))

RECURSIVE count_loop(_, _)
\* the loop of count_by_level over the lines left
count_loop(lines, counts) ==
    IF lines = <<>> THEN counts
    ELSE LET log_upper == upper(lines[1]) IN
         count_loop(Tail(lines),
            IF Contains(ERROR, log_upper) THEN Increment(counts, "ERROR")
            ELSE IF Contains(WARNING, log_upper) THEN Increment(counts, "WARNING")
            ELSE IF Contains(INFO, log_upper) THEN Increment(counts, "INFO")
            ELSE counts)

\* dict(counts)
count_by_level(lines) == Value(count_loop(lines, EmptyCounts))

RECURSIVE extract_loop(_)
extract_loop(lines) ==
    IF lines = <<>> THEN <<>>
    ELSE (IF Contains(ERROR, upper(lines[1])) THEN <<strip(lines[1])>> ELSE <<>>)
            \o extract_loop(Tail(lines))

extract_errors(lines) == Fresh(extract_loop(lines))

RECURSIVE find_loop(_, _, _)
\* re.search(pattern, log, re.IGNORECASE) for a literal pattern: the pattern
\* occurs in the line, letter case ignored
find_loop(lines, pattern, i) ==
    IF i >= Len(lines) THEN <<>>
    ELSE (IF Contains(upper(pattern), upper(lines[i + 1]))
          THEN <<<<i + 1, strip(lines[i + 1])>>>> ELSE <<>>)
            \o find_loop(lines, pattern, i + 1)

\* re.search compiles the pattern when it is first called, so a pattern that
\* does not compile raises re.error on the first line, and never on an empty
\* log.
find_pattern(lines, pattern) ==
    IF lines # <<>> /\ ~Compiles(pattern) THEN Raise("re.error")
    ELSE Fresh(find_loop(lines, pattern, 0))

\* LogFileAnalyzer(filepath), after load_logs
InitLog ==
    /\ logs \in SeqUpTo(LogLines, MaxLogs)
    /\ proc_data = <<>>
    /\ ts_data = <<>>
    /\ op = "__init__"
    /\ arg = 0
    /\ ret = NoResult

CountByLevel ==
    /\ op' = "count_by_level"
    /\ arg' = 0
    /\ ret' = count_by_level(logs)
    /\ UNCHANGED <<proc_data, logs, ts_data>>

ExtractErrors ==
    /\ op' = "extract_errors"
    /\ arg' = 0
    /\ ret' = extract_errors(logs)
    /\ UNCHANGED <<proc_data, logs, ts_data>>

FindPattern ==
    \E pattern \in Patterns :
        /\ op' = "find_pattern"
        /\ arg' = pattern
        /\ ret' = find_pattern(logs, pattern)
        /\ UNCHANGED <<proc_data, logs, ts_data>>

NextLog == CountByLevel \/ ExtractErrors \/ FindPattern

SpecLog == InitLog /\ [][NextLog]_vars

----------------------------------------------------------------------------
\* Properties of ProductionDataProcessor (under SpecProd)

\* C1: get_top_days(n) hands back an empty list for every n <= 0, and a list
\* of at most n entries for every n > 0.
C1_TopDaysLength ==
    op = "get_top_days" =>
        /\ arg <= 0 => ret.val = <<>>
        /\ arg > 0 => Len(ret.val) <= arg

IsNegative(row) ==
    /\ "production" \in DOMAIN row
    /\ float(row["production"]).ok
    /\ float(row["production"]).val < 0

IsMalformed(row) ==
    /\ "production" \in DOMAIN row
    /\ ~float(row["production"]).ok

OffendingRows ==
    {i \in 1..Len(proc_data) : IsNegative(proc_data[i]) \/ IsMalformed(proc_data[i])}

NonIncreasing(s) ==
    \A k \in 1..(Len(s) - 1) : s[k].production >= s[k + 1].production

IsPrefix(s, t) == Len(s) <= Len(t) /\ SubSeq(t, 1, Len(s)) = s

\* the entries of s whose production is p, in the order of s
WithProduction(s, p) == LET Same(e) == e.production = p IN SelectSeq(s, Same)

Contributing ==
    {i \in 1..Len(proc_data) :
        "production" \in DOMAIN proc_data[i] => float(proc_data[i]["production"]).ok}

RECURSIVE TotalUpTo(_)
\* the sum of what rows 1..i contribute: 0 for a row without the field
TotalUpTo(i) ==
    IF i = 0 THEN 0
    ELSE TotalUpTo(i - 1)
            + (IF i \in Contributing /\ "production" \in DOMAIN proc_data[i]
               THEN float(proc_data[i]["production"]).val ELSE 0)

----------------------------------------------------------------------------
\* Properties of LogFileAnalyzer (under SpecLog)

Levels == {"ERROR", "WARNING", "INFO"}

\* the token occurs in the line, letter case ignored
HasToken(token, line) ==
    \E i \in 0..(Len(line) - Len(token)) :
        \A k \in 1..Len(token) : upper_char(line[i + k]) = token[k]

\* the one bucket of a line: the first of ERROR, WARNING, INFO it holds
Bucket(line) ==
    IF HasToken(ERROR, line) THEN "ERROR"
    ELSE IF HasToken(WARNING, line) THEN "WARNING"
    ELSE IF HasToken(INFO, line) THEN "INFO"
    ELSE "none"

CountOf(level) == Cardinality({i \in 1..Len(logs) : Bucket(logs[i]) = level})

CountIn(counts, level) == IF level \in DOMAIN counts THEN counts[level] ELSE 0

\* C7: count_by_level counts each line in at most one bucket, the first of
\* ERROR, WARNING, INFO that occurs in it with letter case ignored; the
\* mapping has a key exactly for the levels counted at least once, and the
\* counts add up to the number of lines holding one of the three tokens.
C7_CountByLevel ==
    op = "count_by_level" =>
        /\ DOMAIN ret.val = {level \in Levels : CountOf(level) >= 1}
        /\ \A level \in DOMAIN ret.val : ret.val[level] = CountOf(level)
        /\ CountIn(ret.val, "ERROR") + CountIn(ret.val, "WARNING")
                + CountIn(ret.val, "INFO")
             = Cardinality({i \in 1..Len(logs) :
                              \E token \in {ERROR, WARNING, INFO} :
                                  HasToken(token, logs[i])})

\* C7's case: a line holding both ERROR and WARNING, a line holding neither
\* and a line holding WARNING and INFO give ERROR: 1 and WARNING: 1.
C7_Witness ==
    /\ op = "count_by_level"
    /\ Len(logs) = 3
    /\ HasToken(ERROR, logs[1]) /\ HasToken(WARNING, logs[1])
    /\ Bucket(logs[2]) = "none"
    /\ HasToken(WARNING, logs[3]) /\ HasToken(INFO, logs[3])
    /\ DOMAIN ret.val = {"ERROR", "WARNING"}
    /\ ret.val["ERROR"] = 1
    /\ ret.val["WARNING"] = 1

----------------------------------------------------------------------------
\* Properties of TimeSeriesAnalyzer (under SpecTS)

IsConstant(s) == \A j, k \in 1..Len(s) : s[j] = s[k]

\* C2: for a constant series of length >= 2, detect_anomalies(threshold)
\* hands back no index, for every threshold, zero and negative ones too.
C2_ConstantSeriesNoAnomalies ==
    (op = "detect_anomalies" /\ Len(ts_data) >= 2 /\ IsConstant(ts_data)) =>
        ret.val = <<>>

\* C3: moving_average with a window <= 0 reaches the caller as an
\* invalid-configuration error for every series: it hands back no list of
\* values and does not fail with an arithmetic error.
C3_NonPositiveWindowRejected ==
    (op = "moving_average" /\ arg <= 0) =>
        /\ ret.kind = "raise"
        /\ ret.val # "ZeroDivisionError"

RECURSIVE RangeSum(_, _, _)
\* s[lo] + ... + s[hi], 1-based
RangeSum(s, lo, hi) == IF lo > hi THEN 0 ELSE s[lo] + RangeSum(s, lo + 1, hi)

\* C5: for window >= 1, moving_average(window) hands back the series
\* unchanged when it is shorter than the window, and otherwise exactly
\* len - window + 1 values, the one at 0-based position i being the
\* arithmetic mean of series[i .. i+window-1].
C5_MovingAverage ==
    (op = "moving_average" /\ arg >= 1) =>
        IF Len(ts_data) < arg THEN ret.kind # "raise" /\ ret.val = ts_data
        ELSE /\ ret.kind = "list"
             /\ Len(ret.val) = Len(ts_data) - arg + 1
             /\ \A k \in 1..Len(ret.val) :
                   /\ ret.val[k][2] > 0
                   /\ ret.val[k][1] * arg
                        = RangeSum(ts_data, k, k + arg - 1) * ret.val[k][2]

\* C5's case: a window of 2 over three values gives two means.
C5_Witness ==
    /\ op = "moving_average"
    /\ arg = 2
    /\ ts_data = <<20, 21, 40>>
    /\ ret.kind = "list"
    /\ ret.val = << <<41, 2>>, <<61, 2>> >>

\* with s1, n1 and s2, n2 the sums and lengths of the two halves:
\* mean1 > 0 and (mean2 - mean1) / mean1 * 100 > 5
TrendUp(s1, n1, s2, n2) ==
    s1 > 0 /\ 100 * (s2 * n1 - s1 * n2) > 5 * s1 * n2

\* mean1 > 0 and (mean2 - mean1) / mean1 * 100 < -5
TrendDown(s1, n1, s2, n2) ==
    s1 > 0 /\ 100 * (s2 * n1 - s1 * n2) < -5 * s1 * n2

\* C6: calculate_trend hands back insufficient_data for a series shorter
\* than 2; otherwise, with mid = floor(len / 2), mean1 the mean of
\* series[0..mid) and mean2 that of series[mid..len), it hands back
\* increasing iff mean1 > 0 and (mean2 - mean1) / mean1 * 100 > 5,
\* decreasing iff mean1 > 0 and that percentage is < -5, and stable
\* otherwise, so always stable when mean1 <= 0.
C6_CalculateTrend ==
    op = "calculate_trend" =>
        IF Len(ts_data) < 2 THEN ret.val = "insufficient_data"
        ELSE LET n == Len(ts_data)
                 mid == n \div 2
                 s1 == RangeSum(ts_data, 1, mid)
                 s2 == RangeSum(ts_data, mid + 1, n)
                 up == TrendUp(s1, mid, s2, n - mid)
                 down == TrendDown(s1, mid, s2, n - mid)
             IN  /\ ret.val = "increasing" <=> up
                 /\ ret.val = "decreasing" <=> down
                 /\ ret.val = "stable" <=> (~up /\ ~down)
                 /\ s1 <= 0 => ret.val = "stable"

\* C6's case: a first half of negative mean followed by a larger second
\* half is stable.
C6_Witness ==
    /\ op = "calculate_trend"
    /\ ts_data = <<-10, 20, 40>>
    /\ ret.val = "stable"

\* C9: no call changes the data an analyzer holds, also when the caller
\* modifies a list a call handed back.
C9_StoredDataUnchanged ==
    [][ts_data' = ts_data /\ logs' = logs /\ proc_data' = proc_data]_vars

====
